---- MODULE Spec2Model ----
(***************************************************************************)
(* A model of admin_app.py: the password-gated admin dashboard with its    *)
(* blog content store, manual-cost ledger, metrics aggregator and the     *)
(* deletion processor.  Every request handler is one action; the          *)
(* relational store is the tables the handlers read and write.  Text is   *)
(* a sequence of one-character strings, Python's None is the string       *)
(* "None", SQL NULL in a timestamp column is the empty tuple.             *)
(***************************************************************************)
EXTENDS Integers, Sequences, FiniteSets, TLC

VARIABLES
    ADMIN_PASSWORD,     \* configuration read from the environment at start-up
    admin,              \* the session flag session['admin']
    now,                \* the wall clock, in seconds
    blog_posts,         \* table blog_posts: a set of rows
    next_post_id,       \* the SERIAL sequence of blog_posts.id
    blog_comments,      \* table blog_comments: a set of rows
    next_comment_id,    \* the SERIAL sequence of blog_comments.id
    manual_costs,       \* table manual_costs: a set of rows
    next_cost_id,       \* the SERIAL sequence of manual_costs.id
    deletion_requests,  \* external table deletion_requests: a sequence of rows
    medications,        \* external table medications: the code_hash values with rows
    reminders,          \* external table reminders: the code_hash values with rows
    patients,           \* external table patients: the code_hash values with a row
    ai_audit_log,       \* table ai_audit_log: a sequence of rows, newest first
    last,               \* the request served last: handler, inputs, response, connection
    served,             \* the number of requests served so far
    slug_in,            \* generate_slug: the title under test
    slug_out,           \* generate_slug: <<>> before the call, <<its result>> after
    signups,            \* patients.created_at: signups[d] rows were created d - 1 days ago
    collected,          \* a collector called alone: <<>> before, <<its result>> after
    inflight            \* per client, a request that runs statement by statement

blogVars == <<blog_posts, next_post_id>>
commentVars == <<blog_comments, next_comment_id>>
costVars == <<manual_costs, next_cost_id>>
deletionVars == <<deletion_requests, medications, reminders, patients>>
slugVars == <<slug_in, slug_out>>
collectorVars == <<signups, collected>>

\* everything the database holds
store == <<blogVars, commentVars, costVars, deletionVars, ai_audit_log>>

vars == <<ADMIN_PASSWORD, admin, now, store, last, served, slugVars, collectorVars, inflight>>

\* ------------------------------------------------------------------ bounds

MaxTitleLen == 4
MaxClock == 2
MaxPostId == 2
MaxComments == 1
MaxCosts == 1
MaxRequests == 2
MaxServed == 4
MaxCreates == 3
MaxDays == 15
MaxAccepted == 7
MaxRejected == 2
MaxOther == 1

\* ------------------------------------------------------------------ text

NULL == <<>>

UpperCase == <<"A","B","C","D","E","F","G","H","I","J","K","L","M",
               "N","O","P","Q","R","S","T","U","V","W","X","Y","Z">>
LowerCase == <<"a","b","c","d","e","f","g","h","i","j","k","l","m",
               "n","o","p","q","r","s","t","u","v","w","x","y","z">>
DigitChars == <<"0","1","2","3","4","5","6","7","8","9">>

Range(s) == {s[i] : i \in 1..Len(s)}

\* str.lower() on one character
LowerChar(c) ==
    IF c \in Range(UpperCase)
    THEN LowerCase[CHOOSE i \in 1..26 : UpperCase[i] = c]
    ELSE c

\* str.lower()
lower(s) == [i \in 1..Len(s) |-> LowerChar(s[i])]

\* the character class [a-z0-9] of the pattern
InClass(c) == c \in Range(LowerCase) \cup Range(DigitChars)

\* re.sub(r'[^a-z0-9]+', '-', s): scanning from position i, inRun says that the
\* character before i already belongs to the match being replaced
RECURSIVE re_sub_from(_, _, _)
re_sub_from(s, i, inRun) ==
    IF i > Len(s) THEN <<>>
    ELSE IF InClass(s[i]) THEN <<s[i]>> \o re_sub_from(s, i + 1, FALSE)
    ELSE IF inRun THEN re_sub_from(s, i + 1, TRUE)
    ELSE <<"-">> \o re_sub_from(s, i + 1, TRUE)

re_sub(s) == re_sub_from(s, 1, FALSE)

\* str.lstrip(chars), str.rstrip(chars), str.strip(chars)
RECURSIVE lstrip(_, _)
lstrip(s, chars) ==
    IF s # <<>> /\ Head(s) \in chars THEN lstrip(Tail(s), chars) ELSE s

RECURSIVE rstrip(_, _)
rstrip(s, chars) ==
    IF s # <<>> /\ s[Len(s)] \in chars THEN rstrip(SubSeq(s, 1, Len(s) - 1), chars) ELSE s

strip(s, chars) == rstrip(lstrip(s, chars), chars)

Whitespace == {" "}

generate_slug_nostrip(title) == re_sub(lower(title))

generate_slug(title) == strip(re_sub(lower(title)), {"-"})

\* str(int(n)) for n >= 0
RECURSIVE str_int(_)
str_int(n) ==
    IF n < 10 THEN <<DigitChars[n + 1]>>
    ELSE str_int(n \div 10) \o <<DigitChars[(n % 10) + 1]>>

\* ------------------------------------------------------------------ generate_slug alone

SlugAlphabet == {"A", "b", "1", " ", "!", "-"}

RECURSIVE SeqsUpTo(_, _)
SeqsUpTo(S, n) ==
    IF n = 0 THEN {<<>>}
    ELSE LET shorter == SeqsUpTo(S, n - 1)
         IN  shorter \cup {Append(s, c) : s \in {t \in shorter : Len(t) = n - 1}, c \in S}

HelloTitle == <<"H","e","l","l","o",","," ","W","o","r","l","d","!"," ","2","0","2","4">>
HelloSlug == <<"h","e","l","l","o","-","w","o","r","l","d","-","2","0","2","4">>

SlugTitles == SeqsUpTo(SlugAlphabet, MaxTitleLen) \cup {HelloTitle}

Idle == [op |-> "none", auth |-> FALSE, status |-> 0, body |-> <<>>, conn |-> "none",
         info |-> <<>>]

\* the tables as init_tables leaves them on a fresh database
EmptyBlog ==
    /\ blog_posts = {}
    /\ next_post_id = 1
    /\ blog_comments = {}
    /\ next_comment_id = 1

EmptyLedger ==
    /\ manual_costs = {}
    /\ next_cost_id = 1
    /\ ai_audit_log = <<>>

\* no collector is under test
NoCollector ==
    /\ signups = <<>>
    /\ collected = <<>>

\* two clients whose requests the server may run at the same time, each on its own
\* connection: app.run serves every request in a thread of its own
Clients == {"a", "b"}

\* no request is between two of its statements
NoneInFlight == [c \in Clients |-> [pc |-> "idle"]]

Hashes == {"h1", "h2"}

Codes == {"c1", "c2"}

\* the main application's tables with no patient and no deletion request
NoPatients ==
    /\ deletion_requests = <<>>
    /\ medications = {}
    /\ reminders = {}
    /\ patients = {}

InitSlug ==
    /\ slug_in \in SlugTitles
    /\ slug_out = <<>>
    /\ ADMIN_PASSWORD = "secret"
    /\ admin = FALSE
    /\ now = 1
    /\ EmptyBlog
    /\ EmptyLedger
    /\ NoPatients
    /\ last = Idle
    /\ served = 0
    /\ inflight = NoneInFlight
    /\ NoCollector

GenerateSlug ==
    /\ slug_out = <<>>
    /\ slug_out' = <<generate_slug(slug_in)>>
    /\ UNCHANGED <<ADMIN_PASSWORD, admin, now, store, last, slug_in, collectorVars, inflight>>

NextSlug == GenerateSlug /\ UNCHANGED served

SpecSlug == InitSlug /\ [][NextSlug]_vars

\* ------------------------------------------------------------------ requests and replies

\* dict.get(key, default)
Get(data, key, default) == IF key \in DOMAIN data THEN data[key] ELSE default

\* a JSON body with the listed keys: each of t, c, s is {} (key absent) or {value}
Dict(t, c, s) ==
    [k \in ({"title" : x \in t} \cup {"content" : x \in c} \cup {"status" : x \in s}) |->
        IF k = "title" THEN CHOOSE x \in t : TRUE
        ELSE IF k = "content" THEN CHOOSE x \in c : TRUE
        ELSE CHOOSE x \in s : TRUE]

Opt(S) == {{}} \cup {{x} : x \in S}

\* where a database call of the request raises: nowhere, in get_db (connect), or in
\* a cursor.execute after the connection was opened
Failures == {"none", "connect", "query"}

Reply(status, body, conn) == [status |-> status, body |-> body, conn |-> conn]

Unauthorized == Reply(401, [error |-> "Unauthorized"], "none")

\* except Exception as e: return jsonify({'error': str(e)}), 500. No handler closes
\* its connection in the except branch: conn says whether get_db had returned one
ServerError(e, conn) == Reply(500, [error |-> e], conn)

check_auth_always == TRUE

\* session.get('admin', False)
check_auth == admin

\* what is kept of a served request: the handler, the session flag it saw, its reply,
\* its connection at return ("none": never opened, "closed", "open") and the facts
\* of the request that the properties below speak about
Served(op, reply, info) ==
    [op |-> op, auth |-> admin, status |-> reply.status,
     body |-> reply.body, conn |-> reply.conn, info |-> info]

\* ------------------------------------------------------------------ login, logout, clock

Passwords == {"secret", "wrong", "None"}

PasswordMatchesAny(password) == TRUE

\* data.get('password') == ADMIN_PASSWORD; a body without 'password' gives None, and
\* ADMIN_PASSWORD is None when the environment variable is unset
PasswordMatches(password) == password = ADMIN_PASSWORD

\* login (POST)
Login(password) ==
    /\ admin' = (IF PasswordMatches(password) THEN TRUE ELSE admin)
    /\ last' = Served("login",
                      IF PasswordMatches(password)
                      THEN Reply(200, [success |-> TRUE], "none")
                      ELSE Reply(401, [success |-> FALSE], "none"),
                      [password |-> password])
    /\ UNCHANGED <<ADMIN_PASSWORD, now, store, slugVars, collectorVars, inflight>>

\* logout: session.pop('admin', None); redirect('/login')
Logout ==
    /\ admin' = FALSE
    /\ last' = Served("logout", Reply(302, [location |-> "/login"], "none"), <<>>)
    /\ UNCHANGED <<ADMIN_PASSWORD, now, store, slugVars, collectorVars, inflight>>

\* datetime.now() advances between requests
Tick ==
    /\ now < MaxClock
    /\ now' = now + 1
    /\ UNCHANGED <<ADMIN_PASSWORD, admin, store, last, slugVars, collectorVars, inflight>>

\* ------------------------------------------------------------------ blog posts

SlugTakenNever(posts, slug) == FALSE

\* slug VARCHAR(255) UNIQUE, and SELECT id FROM blog_posts WHERE slug = %s
SlugTaken(posts, slug) == \E p \in posts : p.slug = slug

\* create_blog_post: slug = f"{slug}-{int(datetime.now().timestamp())}" when the
\* SELECT finds a row with the slug
CollisionSlug(slug, posts, t) ==
    IF SlugTaken(posts, slug) THEN slug \o <<"-">> \o str_int(t) ELSE slug

CreatePublishedAtAlways(status, t) == <<t>>

\* create_blog_post: published_at = datetime.now() if status == 'published' else None
CreatePublishedAt(status, t) == IF status = "published" THEN <<t>> ELSE NULL

\* the outcome of create_blog_post: the reply, the table and the id sequence after it
create_blog_post(data, fail) ==
    LET title == strip(Get(data, "title", <<>>), Whitespace)
        content == strip(Get(data, "content", <<>>), Whitespace)
        same == [reply |-> Unauthorized, posts |-> blog_posts, next_id |-> next_post_id,
                 info |-> <<>>]
    IN
    IF ~check_auth THEN same
    ELSE IF title = <<>> \/ content = <<>>
    THEN [same EXCEPT !.reply = Reply(400, [error |-> "Title and content required"], "none"),
                      !.info = [valid |-> FALSE]]
    ELSE IF fail = "connect"
    THEN [same EXCEPT !.reply = ServerError("OperationalError", "none"),
                      !.info = [valid |-> TRUE, fail |-> fail]]
    ELSE IF fail = "query"
    THEN [same EXCEPT !.reply = ServerError("OperationalError", "open"),
                      !.info = [valid |-> TRUE, fail |-> fail]]
    ELSE
    LET base == generate_slug(title)
        slug == CollisionSlug(base, blog_posts, now)
        status == Get(data, "status", "draft")
        row == [id |-> next_post_id, title |-> title, slug |-> slug, content |-> content,
                status |-> status, published_at |-> CreatePublishedAt(status, now)]
        facts == [valid |-> TRUE, fail |-> fail, id |-> next_post_id,
                  requested |-> Get(data, "status", "None"),
                  base |-> base, collided |-> SlugTaken(blog_posts, base), at |-> now]
    IN
    IF SlugTaken(blog_posts, slug)
    THEN \* slug VARCHAR(255) UNIQUE: the INSERT raises; the sequence value is spent
         [reply |-> ServerError("UniqueViolation", "open"), posts |-> blog_posts,
          next_id |-> next_post_id + 1, info |-> facts]
    ELSE [reply |-> Reply(200, [success |-> TRUE, id |-> row.id, slug |-> slug], "closed"),
          posts |-> blog_posts \cup {row}, next_id |-> next_post_id + 1, info |-> facts]

CreateBlogPost(data, fail) ==
    LET r == create_blog_post(data, fail)
    IN  /\ blog_posts' = r.posts
        /\ next_post_id' = r.next_id
        /\ last' = Served("create_blog_post", r.reply, r.info)
        /\ UNCHANGED <<ADMIN_PASSWORD, admin, now, commentVars, costVars, deletionVars,
                       ai_audit_log, slugVars, collectorVars, inflight>>

UpdatePublishedAtOverwrite(old, t) == <<t>>

UpdatePublishedAtKeep(old, t) == old

\* update_blog_post: if not post['published_at']: published_at = datetime.now()
UpdatePublishedAt(old, t) == IF old = NULL THEN <<t>> ELSE old

\* the row post_id after UPDATE blog_posts SET ... WHERE id = post_id
UpdatedRow(p, data) ==
    LET p1 == IF "title" \in DOMAIN data
              THEN [p EXCEPT !.title = data.title, !.slug = generate_slug(data.title)]
              ELSE p
        p2 == IF "content" \in DOMAIN data THEN [p1 EXCEPT !.content = data.content] ELSE p1
        p3 == IF "status" \in DOMAIN data THEN [p2 EXCEPT !.status = data.status] ELSE p2
    IN  IF "status" \in DOMAIN data /\ data.status = "published"
        THEN [p3 EXCEPT !.published_at = UpdatePublishedAt(p.published_at, now)]
        ELSE p3

\* the outcome of update_blog_post
update_blog_post(post_id, data, fail) ==
    LET same == [reply |-> Unauthorized, posts |-> blog_posts, info |-> <<>>]
        facts == [post_id |-> post_id, data |-> data, fail |-> fail, at |-> now]
        found == {p \in blog_posts : p.id = post_id}
        others == blog_posts \ found
        rows == {UpdatedRow(p, data) : p \in found}
    IN
    IF ~check_auth THEN same
    ELSE IF fail = "connect"
    THEN [same EXCEPT !.reply = ServerError("OperationalError", "none"), !.info = facts]
    ELSE IF fail = "query"
    THEN [same EXCEPT !.reply = ServerError("OperationalError", "open"), !.info = facts]
    ELSE IF "status" \in DOMAIN data /\ data.status = "published" /\ found = {}
    THEN \* post = cur.fetchone() is None: post['published_at'] raises TypeError
         [same EXCEPT !.reply = ServerError("TypeError", "open"), !.info = facts]
    ELSE IF \E r \in rows : SlugTaken(others, r.slug)
    THEN [same EXCEPT !.reply = ServerError("UniqueViolation", "open"), !.info = facts]
    ELSE [reply |-> Reply(200, [success |-> TRUE], "closed"), posts |-> others \cup rows,
          info |-> facts]

UpdateBlogPost(post_id, data, fail) ==
    LET r == update_blog_post(post_id, data, fail)
    IN  /\ blog_posts' = r.posts
        /\ last' = Served("update_blog_post", r.reply, r.info)
        /\ UNCHANGED <<ADMIN_PASSWORD, admin, now, next_post_id, commentVars, costVars,
                       deletionVars, ai_audit_log, slugVars, collectorVars, inflight>>

\* the outcome of delete_blog_post; blog_comments.post_id is ON DELETE CASCADE
delete_blog_post(post_id, fail) ==
    LET same == [reply |-> Unauthorized, posts |-> blog_posts, comments |-> blog_comments]
    IN
    IF ~check_auth THEN same
    ELSE IF fail = "connect" THEN [same EXCEPT !.reply = ServerError("OperationalError", "none")]
    ELSE IF fail = "query" THEN [same EXCEPT !.reply = ServerError("OperationalError", "open")]
    ELSE [reply |-> Reply(200, [success |-> TRUE], "closed"),
          posts |-> {p \in blog_posts : p.id # post_id},
          comments |-> {c \in blog_comments : c.post_id # post_id}]

DeleteBlogPost(post_id, fail) ==
    LET r == delete_blog_post(post_id, fail)
    IN  /\ blog_posts' = r.posts
        /\ blog_comments' = r.comments
        /\ last' = Served("delete_blog_post", r.reply, IF check_auth THEN [post_id |-> post_id] ELSE <<>>)
        /\ UNCHANGED <<ADMIN_PASSWORD, admin, now, next_post_id, next_comment_id, costVars,
                       deletionVars, ai_audit_log, slugVars, collectorVars, inflight>>

\* SELECT id, title, slug, excerpt, author, status, published_at, created_at
AdminColumns(p) == [id |-> p.id, title |-> p.title, slug |-> p.slug, status |-> p.status,
                    published_at |-> p.published_at]

\* SELECT id, title, slug, excerpt, author, published_at
PublicColumns(p) == [id |-> p.id, title |-> p.title, slug |-> p.slug,
                     published_at |-> p.published_at]

WhereAnyStatus(posts) == posts

\* FROM blog_posts WHERE status = 'published'
WherePublished(posts) == {q \in posts : q.status = "published"}

\* get_blog_posts: every post for the administrator, the published ones for anyone else
get_blog_posts(fail) ==
    IF fail = "connect" THEN ServerError("OperationalError", "none")
    ELSE IF fail = "query" THEN ServerError("OperationalError", "open")
    ELSE IF check_auth
    THEN Reply(200, [success |-> TRUE, posts |-> {AdminColumns(p) : p \in blog_posts}],
               "closed")
    ELSE Reply(200, [success |-> TRUE,
                     posts |-> {PublicColumns(p) : p \in WherePublished(blog_posts)}],
               "closed")

GetBlogPosts(fail) ==
    /\ last' = Served("get_blog_posts", get_blog_posts(fail), [fail |-> fail])
    /\ UNCHANGED <<ADMIN_PASSWORD, admin, now, store, slugVars, collectorVars, inflight>>

ForbiddenNever(post) == FALSE

\* if post['status'] != 'published' and not check_auth()
Forbidden(post) == post.status # "published" /\ ~check_auth

\* get_blog_post: 404 for no row, 403 for an unpublished row and no session flag
get_blog_post(post_id, fail) ==
    LET found == {p \in blog_posts : p.id = post_id}
    IN
    IF fail = "connect" THEN ServerError("OperationalError", "none")
    ELSE IF fail = "query" THEN ServerError("OperationalError", "open")
    ELSE IF found = {} THEN Reply(404, [error |-> "Post not found"], "closed")
    ELSE LET post == CHOOSE p \in found : TRUE
         IN  IF Forbidden(post)
             THEN Reply(403, [error |-> "Unauthorized"], "closed")
             ELSE Reply(200, [success |-> TRUE, post |-> post], "closed")

GetBlogPost(post_id, fail) ==
    /\ last' = Served("get_blog_post", get_blog_post(post_id, fail),
                      [post_id |-> post_id, fail |-> fail])
    /\ UNCHANGED <<ADMIN_PASSWORD, admin, now, store, slugVars, collectorVars, inflight>>

\* ------------------------------------------------------------------ comments

\* get_comments
get_comments(post_id, fail) ==
    IF fail = "connect" THEN ServerError("OperationalError", "none")
    ELSE IF fail = "query" THEN ServerError("OperationalError", "open")
    ELSE Reply(200, [success |-> TRUE,
                     comments |-> {[author_name |-> c.author_name, content |-> c.content] :
                                   c \in {d \in blog_comments : d.post_id = post_id}}],
               "closed")

GetComments(post_id, fail) ==
    /\ last' = Served("get_comments", get_comments(post_id, fail), [post_id |-> post_id])
    /\ UNCHANGED <<ADMIN_PASSWORD, admin, now, store, slugVars, collectorVars, inflight>>

\* the outcome of add_comment, which asks for no session flag: the public post page
\* posts its comment form here
add_comment(post_id, name, content, fail) ==
    LET text == strip(content, Whitespace)
        same == [reply |-> Unauthorized, comments |-> blog_comments,
                 next_id |-> next_comment_id]
        row == [id |-> next_comment_id, post_id |-> post_id,
                author_name |-> strip(name, Whitespace), content |-> text]
    IN
    IF text = <<>>
    THEN [same EXCEPT !.reply = Reply(400, [error |-> "Comment content required"], "none")]
    ELSE IF fail = "connect" THEN [same EXCEPT !.reply = ServerError("OperationalError", "none")]
    ELSE IF fail = "query" THEN [same EXCEPT !.reply = ServerError("OperationalError", "open")]
    ELSE IF \A p \in blog_posts : p.id # post_id
    THEN \* post_id INTEGER REFERENCES blog_posts(id): the INSERT raises
         [reply |-> ServerError("ForeignKeyViolation", "open"), comments |-> blog_comments,
          next_id |-> next_comment_id + 1]
    ELSE [reply |-> Reply(200, [success |-> TRUE], "closed"),
          comments |-> blog_comments \cup {row}, next_id |-> next_comment_id + 1]

AddComment(post_id, name, content, fail) ==
    LET r == add_comment(post_id, name, content, fail)
    IN  /\ blog_comments' = r.comments
        /\ next_comment_id' = r.next_id
        /\ last' = Served("add_comment", r.reply, [post_id |-> post_id])
        /\ UNCHANGED <<ADMIN_PASSWORD, admin, now, blogVars, costVars, deletionVars,
                       ai_audit_log, slugVars, collectorVars, inflight>>

\* ------------------------------------------------------------------ manual costs

ReplaceCosts(costs, row) == {row}

\* INSERT INTO manual_costs (cost_type, amount, month) VALUES (%s, %s, %s)
InsertCost(costs, row) == costs \cup {row}

\* the outcome of add_manual_cost; cost_type is "None" when the form sends none and
\* amount DECIMAL(10, 2) is a number of whole cents
add_manual_cost(cost_type, amount, fail) ==
    LET same == [reply |-> Unauthorized, costs |-> manual_costs, next_id |-> next_cost_id]
        row == [id |-> next_cost_id, cost_type |-> cost_type, amount |-> amount,
                month |-> "current"]
    IN
    IF ~check_auth THEN same
    ELSE IF fail = "connect" THEN [same EXCEPT !.reply = ServerError("OperationalError", "none")]
    ELSE IF fail = "query" THEN [same EXCEPT !.reply = ServerError("OperationalError", "open")]
    ELSE IF cost_type = "None"
    THEN \* cost_type VARCHAR(50) NOT NULL: the INSERT raises
         [reply |-> ServerError("NotNullViolation", "open"), costs |-> manual_costs,
          next_id |-> next_cost_id + 1]
    ELSE [reply |-> Reply(200, [success |-> TRUE, id |-> row.id], "closed"),
          costs |-> InsertCost(manual_costs, row), next_id |-> next_cost_id + 1]

AddManualCost(cost_type, amount, fail) ==
    LET r == add_manual_cost(cost_type, amount, fail)
    IN  /\ manual_costs' = r.costs
        /\ next_cost_id' = r.next_id
        /\ last' = Served("add_manual_cost", r.reply, <<>>)
        /\ UNCHANGED <<ADMIN_PASSWORD, admin, now, blogVars, commentVars, deletionVars,
                       ai_audit_log, slugVars, collectorVars, inflight>>

\* get_cost_history
get_cost_history(fail) ==
    IF ~check_auth THEN Unauthorized
    ELSE IF fail = "connect" THEN ServerError("OperationalError", "none")
    ELSE IF fail = "query" THEN ServerError("OperationalError", "open")
    ELSE Reply(200, [success |-> TRUE, history |-> manual_costs], "closed")

GetCostHistory(fail) ==
    /\ last' = Served("get_cost_history", get_cost_history(fail), <<>>)
    /\ UNCHANGED <<ADMIN_PASSWORD, admin, now, store, slugVars, collectorVars, inflight>>

\* get_ai_audit
get_ai_audit(fail) ==
    IF ~check_auth THEN Unauthorized
    ELSE IF fail = "connect" THEN ServerError("OperationalError", "none")
    ELSE IF fail = "query" THEN ServerError("OperationalError", "open")
    ELSE Reply(200, [success |-> TRUE, audit_trail |-> ai_audit_log], "closed")

GetAiAudit(fail) ==
    /\ last' = Served("get_ai_audit", get_ai_audit(fail), <<>>)
    /\ UNCHANGED <<ADMIN_PASSWORD, admin, now, store, slugVars, collectorVars, inflight>>

\* dashboard: redirect('/login') without the session flag
Dashboard ==
    /\ last' = Served("dashboard",
                      IF check_auth THEN Reply(200, [page |-> "DASHBOARD_HTML"], "none")
                      ELSE Reply(302, [location |-> "/login"], "none"), <<>>)
    /\ UNCHANGED <<ADMIN_PASSWORD, admin, now, store, slugVars, collectorVars, inflight>>

\* ------------------------------------------------------------------ deletion processor

\* the rows of SELECT code_hash FROM deletion_requests WHERE patient_code = %s AND
\* status = 'pending', as positions in the table
PendingMatchAnyStatus(requests, patient_code) ==
    {i \in 1..Len(requests) : requests[i].patient_code = patient_code}

PendingMatch(requests, patient_code) ==
    {i \in 1..Len(requests) : /\ requests[i].patient_code = patient_code
                              /\ requests[i].status = "pending"}

DeleteNothing(table, code_hash) == table

\* DELETE FROM <table> WHERE code_hash = %s
DeleteWhere(table, code_hash) == table \ {code_hash}

\* UPDATE deletion_requests SET status = 'completed', processed_at = CURRENT_TIMESTAMP
\* WHERE patient_code = %s
MarkCompleted(requests, patient_code, t) ==
    [i \in 1..Len(requests) |->
        IF requests[i].patient_code = patient_code
        THEN [requests[i] EXCEPT !.status = "completed", !.processed_at = <<t>>]
        ELSE requests[i]]

\* the tables as the transaction sees them after the first n of its four statements
AfterStatements(n, patient_code, code_hash) ==
    [medications |-> IF n >= 1 THEN DeleteWhere(medications, code_hash) ELSE medications,
     reminders |-> IF n >= 2 THEN DeleteWhere(reminders, code_hash) ELSE reminders,
     patients |-> IF n >= 3 THEN DeleteWhere(patients, code_hash) ELSE patients,
     requests |-> IF n >= 4 THEN MarkCompleted(deletion_requests, patient_code, now)
                  ELSE deletion_requests]

Autocommit(before, after, committed) == after

\* psycopg2 opens a transaction at the first execute; what it wrote is in the
\* database only after conn.commit()
Visible(before, after, committed) == IF committed THEN after ELSE before

\* the statements of process_deletion after its SELECT; a failure "query" at 0 is the
\* SELECT raising, at 1..4 that statement raising, at 5 conn.commit() raising
Statements == 0..5

\* the outcome of process_deletion; pick is the position of the row fetchone returns
process_deletion(patient_code, pick, fail, at) ==
    LET before == AfterStatements(0, patient_code, "None")
        facts == [patient_code |-> patient_code, fail |-> fail, at |-> at]
        same == [reply |-> Unauthorized, tables |-> before, info |-> facts]
    IN
    IF ~check_auth THEN same
    ELSE IF fail = "connect" THEN [same EXCEPT !.reply = ServerError("OperationalError", "none")]
    ELSE IF fail = "query" /\ at = 0
    THEN [same EXCEPT !.reply = ServerError("OperationalError", "open")]
    ELSE IF PendingMatch(deletion_requests, patient_code) = {}
    THEN [same EXCEPT !.reply = Reply(404, [error |-> "Request not found"], "closed")]
    ELSE
    LET code_hash == deletion_requests[pick].code_hash
        read == facts @@ [code_hash |-> code_hash]
    IN
    IF fail = "query"
    THEN [reply |-> ServerError("OperationalError", "open"),
          tables |-> Visible(before, AfterStatements(at - 1, patient_code, code_hash), FALSE),
          info |-> read]
    ELSE [reply |-> Reply(200, [success |-> TRUE], "closed"),
          tables |-> Visible(before, AfterStatements(4, patient_code, code_hash), TRUE),
          info |-> read]

ProcessDeletion(patient_code, pick, fail, at) ==
    LET r == process_deletion(patient_code, pick, fail, at)
        matching == PendingMatch(deletion_requests, patient_code)
    IN  /\ IF matching = {} THEN pick = 0 ELSE pick \in matching
        /\ medications' = r.tables.medications
        /\ reminders' = r.tables.reminders
        /\ patients' = r.tables.patients
        /\ deletion_requests' = r.tables.requests
        /\ last' = Served("process_deletion", r.reply, r.info)
        /\ UNCHANGED <<ADMIN_PASSWORD, admin, now, blogVars, commentVars, costVars,
                       ai_audit_log, slugVars, collectorVars, inflight>>

\* ------------------------------------------------------------------ the deletion processor alone

PendingRows == [patient_code : Codes, code_hash : Hashes, status : {"pending"},
                processed_at : {NULL}]

\* one representative of the tables that differ only in the physical order of rows
RowRank(row) ==
    (IF row.patient_code = "c1" THEN 0 ELSE 2) + (IF row.code_hash = "h1" THEN 0 ELSE 1)

InRowOrder(requests) ==
    \A i \in 1..Len(requests) - 1 : RowRank(requests[i]) <= RowRank(requests[i + 1])

\* the main application's tables hold any patients and any pending requests; the
\* session is either an administrator's or not
InitDeletion ==
    /\ ADMIN_PASSWORD = "secret"
    /\ admin \in BOOLEAN
    /\ now = 1
    /\ EmptyBlog
    /\ EmptyLedger
    /\ deletion_requests \in {r \in SeqsUpTo(PendingRows, MaxRequests) : InRowOrder(r)}
    /\ medications \in SUBSET Hashes
    /\ reminders \in SUBSET Hashes
    /\ patients \in SUBSET Hashes
    /\ last = Idle
    /\ served = 0
    /\ inflight = NoneInFlight
    /\ slug_in = <<>>
    /\ slug_out = <<>>
    /\ NoCollector

PatientCodeInputs == Codes \cup {"None"}

DeletionRequest ==
    \/ \E patient_code \in PatientCodeInputs, pick \in 0..MaxRequests :
          ProcessDeletion(patient_code, pick, "none", 0)
    \/ \E patient_code \in PatientCodeInputs, pick \in 0..MaxRequests :
          ProcessDeletion(patient_code, pick, "connect", 0)
    \/ \E patient_code \in PatientCodeInputs, pick \in 0..MaxRequests, at \in Statements :
          ProcessDeletion(patient_code, pick, "query", at)

NextDeletion == DeletionRequest /\ UNCHANGED served

SpecDeletion == InitDeletion /\ [][NextDeletion]_vars

\* ------------------------------------------------------------------ numbers

\* money is counted in thousandths of a cent; round(x, 2) keeps whole cents
Cent == 1000

Dollar == 100 * Cent

\* round(n / d) for d > 0: the nearest integer, the even one of two equally near
round_div(n, d) ==
    LET q == n \div d
        r == n % d
    IN  IF 2 * r < d THEN q
        ELSE IF 2 * r > d THEN q + 1
        ELSE IF q % 2 = 0 THEN q ELSE q + 1

round2_none(x) == x

\* round(x, 2) of an amount of money
round2(x) == Cent * round_div(x, Cent)

\* int(n / d) for d > 0: towards zero
int_div(n, d) == IF n >= 0 THEN n \div d ELSE -((-n) \div d)

\* x + y on binary floating-point numbers that stand for decimal fractions: exact
\* when one of them is 0.0, otherwise the double nearest to the sum, which is off
\* the decimal sum by err, far less than the rounding of any reported figure
FloatErr == {-1, 0, 1}

fadd(x, y, err) == IF x = 0 \/ y = 0 THEN x + y ELSE x + y + err

RECURSIVE SumSeq(_)
SumSeq(q) == IF q = <<>> THEN 0 ELSE Head(q) + SumSeq(Tail(q))

Min(x, y) == IF x <= y THEN x ELSE y

\* ------------------------------------------------------------------ collectors

\* the collectors in the order get_all_metrics calls them
Collectors == {"gcp_billing", "database", "twilio", "gemini", "users", "satisfaction",
               "dau", "manual_costs", "cloud_run_errors", "health", "ai_compliance",
               "deletion_requests"}

\* the collectors that call get_db
DbCollectors == Collectors \ {"gcp_billing", "twilio", "cloud_run_errors"}

\* the collectors that look at their credentials before fetching
Configured == {"gcp_billing", "twilio"}

\* what a collector returns from its except branch
Sentinel(c) ==
    CASE c = "gcp_billing" -> [cloud_run |-> 0, cloud_sql |-> 0, total |-> 0, source |-> "Error"]
      [] c = "database" -> [size_gb |-> 0, error |-> "e"]
      [] c = "twilio" -> [cost |-> 0, total_calls |-> 0, balance |-> 0, error |-> "e"]
      [] c = "gemini" -> [cost |-> 0, total_queries |-> 0, error |-> "e"]
      [] c = "users" -> [total_users |-> 0, error |-> "e"]
      [] c = "satisfaction" -> [scores |-> <<>>, error |-> "e"]
      [] c = "dau" -> [daily |-> <<>>, error |-> "e"]
      [] c = "manual_costs" -> [total |-> 0, error |-> "e"]
      [] c = "cloud_run_errors" -> [errors_24h |-> 0, errors_7d |-> 0, unresolved |-> 0,
                                    error |-> "e", source |-> "Error fetching logs"]
      [] c = "health" -> [overall |-> "unhealthy", error |-> "e"]
      [] c = "ai_compliance" -> [total_actions |-> 0, error |-> "e"]
      [] c = "deletion_requests" -> <<>>

\* what a collector returns when its credentials are not configured
NoCredentials(c) ==
    CASE c = "gcp_billing" -> [total |-> 0, source |-> "No GCP billing config"]
      [] c = "twilio" -> [cost |-> 0, total_calls |-> 0, error |-> "No Twilio credentials"]

RECURSIVE SumAmounts(_)
SumAmounts(rows) ==
    IF rows = {} THEN 0
    ELSE LET r == CHOOSE x \in rows : TRUE IN r.amount + SumAmounts(rows \ {r})

\* fetch_user_metrics: WHERE created_at >= CURRENT_DATE - INTERVAL '30 days'
SignupDays == 30

\* fetch_user_metrics: daily_signups[:7], and [7:14] for the week before
Week == 7

\* fetch_user_metrics: the counts of SELECT DATE(created_at), COUNT(*) ... GROUP BY
\* DATE(created_at) ORDER BY date DESC, one row for each day that has a signup
daily_signups ==
    SelectSeq([d \in 1..Min(Len(signups), SignupDays + 1) |-> signups[d]],
              LAMBDA count : count > 0)

\* previous_7d = sum(daily_signups[7:14]) if len(daily_signups) >= 14 else 1
previous_7d(rows) ==
    IF Len(rows) >= 2 * Week THEN SumSeq(SubSeq(rows, Week + 1, 2 * Week)) ELSE 1

\* what fetch_user_metrics returns when its queries succeed; growth_rate is in
\* tenths of a percent, as round(growth_rate, 1) leaves it
user_metrics ==
    LET rows == daily_signups
        recent_7d == SumSeq(SubSeq(rows, 1, Min(Len(rows), Week)))
        previous == previous_7d(rows)
    IN  [total_users |-> Cardinality(patients),
         growth_rate |-> IF previous > 0
                         THEN round_div((recent_7d - previous) * 1000, previous)
                         ELSE 0,
         signups_7d |-> recent_7d,
         signups_prev_7d |-> previous]

\* user_action IS NULL
NoAction == "NULL"

WhereRecent(log) == SelectSeq(log, LAMBDA row : row.recent)

WhereRatedOrNot(log) == SelectSeq(log, LAMBDA row : row.recent)

\* FROM ai_audit_log WHERE timestamp >= CURRENT_TIMESTAMP - INTERVAL '30 days'
\* AND user_action IS NOT NULL
WhereRated(log) == SelectSeq(log, LAMBDA row : row.recent /\ row.user_action # NoAction)

CountAction(rows, action) == Len(SelectSeq(rows, LAMBDA row : row.user_action = action))

\* what fetch_ai_compliance_metrics returns when its queries succeed;
\* acceptance_rate is in tenths of a percent, as round(acceptance_rate, 1) leaves it
ai_compliance ==
    LET acceptance == WhereRated(ai_audit_log)
        accepted == CountAction(acceptance, "accepted")
        total == Len(acceptance)
    IN  [total_actions |-> Len(WhereRecent(ai_audit_log)),
         acceptance_rate |-> IF total > 0 THEN round_div(accepted * 1000, total) ELSE 0,
         accepted |-> accepted,
         rejected |-> CountAction(acceptance, "rejected"),
         modified |-> CountAction(acceptance, "modified")]

\* what a collector returns when its fetch succeeds; ext holds what the external
\* services report, before rounding
Fetched(c, ext) ==
    CASE c = "gcp_billing" -> [total |-> round2(ext.gcp_total), source |-> "BigQuery (REAL)"]
      [] c = "database" -> [size_gb |-> 0]
      [] c = "twilio" -> [cost |-> round2(ext.twilio_cost), total_calls |-> ext.calls]
      [] c = "gemini" -> [cost |-> round2(ext.gemini_cost), total_queries |-> 0]
      [] c = "users" -> user_metrics
      [] c = "satisfaction" -> [scores |-> <<>>]
      [] c = "dau" -> [daily |-> <<>>]
      [] c = "manual_costs" ->
            [total |-> round2(SumAmounts({r \in manual_costs : r.month = "current"}))]
      [] c = "cloud_run_errors" -> [errors_24h |-> 0, errors_7d |-> 0, unresolved |-> 0,
                                    source |-> "Cloud Run Logs"]
      [] c = "health" -> [overall |-> "healthy", patients_count |-> Cardinality(patients)]
      [] c = "ai_compliance" -> ai_compliance
      [] c = "deletion_requests" ->
            SelectSeq([i \in 1..Len(deletion_requests) |->
                          [patient_code |-> deletion_requests[i].patient_code,
                           status |-> deletion_requests[i].status]],
                      LAMBDA r : r.status = "pending")

\* how a call of a collector ends: it returns a value or raises
Returned(v) == [raised |-> FALSE, value |-> v]

Propagate(c) == [raised |-> TRUE, value |-> <<>>]

\* except Exception as e: return <the collector's sentinel>
Swallow(c) == Returned(Sentinel(c))

\* a call of collector c when the fetches of the collectors in failing raise and the
\* collectors in ext.credentials have their credentials
Collect(c, failing, ext) ==
    IF c \in Configured \ ext.credentials THEN Returned(NoCredentials(c))
    ELSE IF c \in failing THEN Swallow(c)
    ELSE Returned(Fetched(c, ext))

\* the collectors that did not get their data
Failed(failing, ext) == failing \cup (Configured \ ext.credentials)

\* a collector called by itself
FetchUserMetrics(fail) ==
    /\ collected = <<>>
    /\ collected' = <<Collect("users", IF fail = "none" THEN {} ELSE {"users"},
                              [credentials |-> Configured]).value>>
    /\ UNCHANGED <<ADMIN_PASSWORD, admin, now, store, last, slugVars, signups, inflight>>

FetchAiComplianceMetrics(fail) ==
    /\ collected = <<>>
    /\ collected' = <<Collect("ai_compliance",
                              IF fail = "none" THEN {} ELSE {"ai_compliance"},
                              [credentials |-> Configured]).value>>
    /\ UNCHANGED <<ADMIN_PASSWORD, admin, now, store, last, slugVars, signups, inflight>>

\* ------------------------------------------------------------------ metrics

UnauthorizedWithData == Reply(401, [error |-> "Unauthorized", users |-> Fetched("users", <<>>)],
                              "none")

\* get_all_metrics: if not check_auth(): return jsonify({'error': 'Unauthorized'}), 401
MetricsUnauthorized == Unauthorized

\* revenue_per_user = 5.0
revenue_per_user == 5 * Dollar

\* total_costs = automated_costs + manual_costs.get('total', 0)
TotalCosts(automated_costs, manual, err) == fadd(automated_costs, manual, err)

per_user_of_one(total_costs, total_users) ==
    IF total_users > 0 THEN Cent * round_div(total_costs, total_users * Cent) ELSE total_costs

\* round(per_user_cost, 2) of per_user_cost = total_costs / total_users
\* if total_users > 0 else 0
per_user(total_costs, total_users) ==
    IF total_users > 0 THEN Cent * round_div(total_costs, total_users * Cent) ELSE 0

breakeven_users_nearest(total_costs) == round_div(total_costs, revenue_per_user)

\* breakeven_users = int(total_costs / revenue_per_user)
breakeven_users(total_costs) == int_div(total_costs, revenue_per_user)

\* the outcome of get_all_metrics when the collectors in failing raise inside; a
\* database collector that raises after get_db leaves its connection open
get_all_metrics(failing, fail, ext) ==
    IF ~check_auth
    THEN [reply |-> MetricsUnauthorized, collectors |-> {}, info |-> <<>>]
    ELSE
    LET call == [c \in Collectors |-> Collect(c, failing, ext)]
        got == [c \in Collectors |-> call[c].value]
        conn == IF fail = "query" /\ failing \cap DbCollectors # {} THEN "open" ELSE "closed"
        gcp_total == Get(got["gcp_billing"], "total", 0)
        twilio_cost == Get(got["twilio"], "cost", 0)
        gemini_cost == Get(got["gemini"], "cost", 0)
        automated_costs == fadd(fadd(gcp_total, twilio_cost, ext.err), gemini_cost, ext.err)
        total_costs == TotalCosts(automated_costs, Get(got["manual_costs"], "total", 0),
                                  ext.err)
        total_users == Get(got["users"], "total_users", 0)
        monthly_revenue == total_users * revenue_per_user
        profit_loss == monthly_revenue - total_costs
        facts == [failing |-> failing, failed |-> Failed(failing, ext),
                  total_costs |-> total_costs]
    IN  IF \E c \in Collectors : call[c].raised
        THEN [reply |-> ServerError("Exception", conn), collectors |-> Collectors,
              info |-> facts]
        ELSE
        [reply |->
            Reply(200,
                  [success |-> TRUE,
                   users |-> got["users"],
                   costs |-> [automated |-> [twilio |-> twilio_cost, gemini |-> gemini_cost,
                                             total |-> round2(automated_costs)],
                              manual |-> got["manual_costs"],
                              total |-> round2(total_costs),
                              per_user |-> per_user(total_costs, total_users)],
                   financial |-> [total_costs |-> round2(total_costs),
                                  monthly_revenue |-> round2(monthly_revenue),
                                  profit_loss |-> round2(profit_loss),
                                  breakeven_users |-> breakeven_users(total_costs),
                                  current_users |-> total_users],
                   details |-> [gcp |-> got["gcp_billing"], database |-> got["database"],
                                twilio |-> got["twilio"], gemini |-> got["gemini"]],
                   satisfaction |-> got["satisfaction"],
                   dau |-> got["dau"],
                   errors |-> got["cloud_run_errors"],
                   health |-> got["health"],
                   ai_compliance |-> got["ai_compliance"],
                   deletions |-> got["deletion_requests"]],
                  conn),
         collectors |-> Collectors,
         info |-> facts]

GetAllMetrics(failing, fail, ext) ==
    LET r == get_all_metrics(failing, fail, ext)
    IN  /\ last' = Served("get_all_metrics", r.reply,
                          [collectors |-> r.collectors] @@ r.info)
        /\ UNCHANGED <<ADMIN_PASSWORD, admin, now, store, slugVars, collectorVars, inflight>>

\* ------------------------------------------------------------------ the blog store alone

StatusValues == {"draft", "published", "archived"}

BlogTitles == {<<" ">>, <<"A">>}

CreateInputs == {Dict(t, c, s) : t \in Opt(BlogTitles), c \in Opt({<<"x">>}),
                                 s \in Opt(StatusValues)}

UpdateInputs == {Dict(t, c, s) : t \in Opt({<<"A">>}), c \in {{}},
                                 s \in Opt(StatusValues)}

PostIds == 1..MaxPostId

\* the blog store from a fresh database, in the session of a logged-in administrator
InitBlog ==
    /\ ADMIN_PASSWORD = "secret"
    /\ admin = TRUE
    /\ now = 1
    /\ EmptyBlog
    /\ EmptyLedger
    /\ NoPatients
    /\ last = Idle
    /\ served = 0
    /\ inflight = NoneInFlight
    /\ slug_in = <<>>
    /\ slug_out = <<>>
    /\ NoCollector

BlogRequest ==
    \/ Tick
    \/ /\ next_post_id <= MaxPostId
       /\ \E data \in CreateInputs : CreateBlogPost(data, "none")
    \/ /\ next_post_id <= MaxPostId
       /\ \E fail \in Failures : CreateBlogPost(Dict({<<"A">>}, {<<"x">>}, {}), fail)
    \/ \E post_id \in PostIds, data \in UpdateInputs : UpdateBlogPost(post_id, data, "none")
    \/ \E post_id \in PostIds, fail \in Failures :
          UpdateBlogPost(post_id, Dict({}, {}, {"published"}), fail)
    \/ \E post_id \in PostIds, fail \in Failures : DeleteBlogPost(post_id, fail)

NextBlog == BlogRequest /\ UNCHANGED served

SpecBlog == InitBlog /\ [][NextBlog]_vars

\* ------------------------------------------------------------------ creations alone

SlugCollisionTitles == {<<"A">>, <<"A", " ", "1">>, <<" ">>, <<"!">>}

NextCreate ==
    /\ UNCHANGED served
    /\ \/ Tick
       \/ /\ next_post_id <= MaxCreates
          /\ \E t \in SlugCollisionTitles, c \in Opt({<<"x">>}), st \in Opt({"published"}),
                   fail \in Failures :
                CreateBlogPost(Dict({t}, c, st), fail)

SpecCreate == InitBlog /\ [][NextCreate]_vars

\* ------------------------------------------------------------------ the aggregator alone

\* what the billing export, the telephony account and the token counts amount to,
\* with every credential configured and sums that happen to be exact
PlainReading == [gcp_total |-> 5 * Cent, twilio_cost |-> 331 * Cent,
                 gemini_cost |-> 75 * Cent, calls |-> 10, credentials |-> Configured,
                 err |-> 0]

\* amounts before the collectors round them, any credentials, any rounding error
MetricReadings ==
    {[PlainReading EXCEPT !.gcp_total = g, !.gemini_cost = 75 * Cent + 300,
                          !.credentials = cr, !.err = e] :
        g \in {5 * Cent, 5 * Cent + 400}, cr \in SUBSET Configured, e \in FloatErr}

CostAmounts == {89 * Cent, 10 * Dollar}

\* an administrator's session on a database with up to two patients and no cost row
InitMetrics ==
    /\ ADMIN_PASSWORD = "secret"
    /\ admin = TRUE
    /\ now = 1
    /\ EmptyBlog
    /\ EmptyLedger
    /\ deletion_requests = <<>>
    /\ medications = {}
    /\ reminders = {}
    /\ patients \in {{}, {"h1"}, {"h1", "h2"}}
    /\ last = Idle
    /\ served = 0
    /\ inflight = NoneInFlight
    /\ slug_in = <<>>
    /\ slug_out = <<>>
    /\ NoCollector

\* get_all_metrics writes nothing, so a call that follows another one finds the
\* store of the first and adds no document to those the first could return
MetricsRequest ==
    \/ /\ next_cost_id <= MaxCosts
       /\ \E amount \in CostAmounts : AddManualCost("marketing", amount, "none")
    \/ /\ last.op # "get_all_metrics"
       /\ \E failing \in SUBSET Collectors : GetAllMetrics(failing, "query", PlainReading)
    \/ /\ last.op # "get_all_metrics"
       /\ \E failing \in {{}, {"users"}, {"manual_costs"}}, ext \in MetricReadings :
             GetAllMetrics(failing, "connect", ext)

NextMetrics == MetricsRequest /\ UNCHANGED served

SpecMetrics == InitMetrics /\ [][NextMetrics]_vars

\* ------------------------------------------------------------------ the user collector alone

SignupCounts == {0, 1}

\* the main application's patients table: at most one patient signed up on each of
\* the last MaxDays days, and a patient is named by the day of the signup
InitGrowth ==
    /\ ADMIN_PASSWORD = "secret"
    /\ admin = TRUE
    /\ now = 1
    /\ EmptyBlog
    /\ EmptyLedger
    /\ deletion_requests = <<>>
    /\ medications = {}
    /\ reminders = {}
    /\ signups \in [1..MaxDays -> SignupCounts]
    /\ patients = {d \in 1..MaxDays : signups[d] > 0}
    /\ last = Idle
    /\ served = 0
    /\ inflight = NoneInFlight
    /\ slug_in = <<>>
    /\ slug_out = <<>>
    /\ collected = <<>>

NextGrowth ==
    /\ UNCHANGED served
    /\ \E fail \in {"none", "query"} : FetchUserMetrics(fail)

SpecGrowth == InitGrowth /\ [][NextGrowth]_vars

\* ------------------------------------------------------------------ the AI compliance collector alone

AuditRow(user_action, recent) == [user_action |-> user_action, recent |-> recent]

Repeat(row, n) == [i \in 1..n |-> row]

\* the audit trail, newest first: rated and unrated entries of the last 30 days and
\* accepted entries older than that
AuditLogs ==
    {Repeat(AuditRow("accepted", TRUE), a) \o Repeat(AuditRow("rejected", TRUE), r)
       \o Repeat(AuditRow("modified", TRUE), m) \o Repeat(AuditRow(NoAction, TRUE), u)
       \o Repeat(AuditRow("accepted", FALSE), o) :
        a \in 0..MaxAccepted, r \in 0..MaxRejected, m \in 0..MaxOther, u \in 0..MaxOther,
        o \in 0..MaxOther}

InitAudit ==
    /\ ADMIN_PASSWORD = "secret"
    /\ admin = TRUE
    /\ now = 1
    /\ EmptyBlog
    /\ manual_costs = {}
    /\ next_cost_id = 1
    /\ ai_audit_log \in AuditLogs
    /\ NoPatients
    /\ last = Idle
    /\ served = 0
    /\ inflight = NoneInFlight
    /\ slug_in = <<>>
    /\ slug_out = <<>>
    /\ NoCollector

NextAudit ==
    /\ UNCHANGED served
    /\ \E fail \in {"none", "query"} : FetchAiComplianceMetrics(fail)

SpecAudit == InitAudit /\ [][NextAudit]_vars

\* ------------------------------------------------------------------ interleaved requests

\* another client's request has run its SELECT and not yet its writes
OtherMidway(c) == \E o \in Clients \ {c} : inflight[o].pc = "midway"

\* process_deletion up to result = cur.fetchone(): 401, 404, or the code_hash read.
\* The SELECT takes no lock and reads what is committed.
DeletionSelect(c, patient_code, pick) ==
    LET matching == PendingMatch(deletion_requests, patient_code)
        req == [op |-> "process_deletion", patient_code |-> patient_code]
    IN  /\ inflight[c].pc = "idle"
        /\ IF matching = {} THEN pick = 0 ELSE pick \in matching
        /\ inflight' = [inflight EXCEPT ![c] =
              IF ~check_auth
              THEN req @@ [pc |-> "done", reply |-> Unauthorized, overlap |-> FALSE]
              ELSE IF matching = {}
              THEN req @@ [pc |-> "done", overlap |-> FALSE,
                           reply |-> Reply(404, [error |-> "Request not found"], "closed")]
              ELSE req @@ [pc |-> "midway", code_hash |-> deletion_requests[pick].code_hash]]
        /\ UNCHANGED <<ADMIN_PASSWORD, admin, now, store, last, served, slugVars,
                       collectorVars>>

\* process_deletion from the first DELETE to the return: the three DELETEs, the
\* UPDATE, conn.commit().  A statement that meets a row another transaction wrote
\* waits for that transaction to end and then runs on what it committed, so the
\* writes of one request take effect together, after those of the request that
\* wrote first.  The UPDATE has no status in its WHERE.
DeletionCommit(c) ==
    LET r == inflight[c]
        after == AfterStatements(4, r.patient_code, r.code_hash)
        tables == Visible(AfterStatements(0, r.patient_code, r.code_hash), after, TRUE)
    IN  /\ r.pc = "midway"
        /\ r.op = "process_deletion"
        /\ medications' = tables.medications
        /\ reminders' = tables.reminders
        /\ patients' = tables.patients
        /\ deletion_requests' = tables.requests
        /\ inflight' = [inflight EXCEPT ![c] =
              [op |-> r.op, patient_code |-> r.patient_code, code_hash |-> r.code_hash,
               pc |-> "done", overlap |-> OtherMidway(c),
               reply |-> Reply(200, [success |-> TRUE], "closed")]]
        /\ UNCHANGED <<ADMIN_PASSWORD, admin, now, blogVars, commentVars, costVars,
                       ai_audit_log, last, served, slugVars, collectorVars>>

NextDeletionRace ==
    \/ \E c \in Clients, patient_code \in PatientCodeInputs, pick \in 0..MaxRequests :
          DeletionSelect(c, patient_code, pick)
    \/ \E c \in Clients : DeletionCommit(c)

SpecDeletionRace == InitDeletion /\ [][NextDeletionRace]_vars

RaceTitles == {<<"A">>, <<"B">>}

\* create_blog_post up to published_at = ...: 401, 400, or the row to insert, its
\* slug suffixed when the SELECT found the slug among the committed rows
CreateCheck(c, data) ==
    LET title == strip(Get(data, "title", <<>>), Whitespace)
        content == strip(Get(data, "content", <<>>), Whitespace)
        base == generate_slug(title)
        status == Get(data, "status", "draft")
        req == [op |-> "create_blog_post", title |-> title]
    IN  /\ inflight[c].pc = "idle"
        /\ inflight' = [inflight EXCEPT ![c] =
              IF ~check_auth
              THEN req @@ [pc |-> "done", reply |-> Unauthorized, overlap |-> FALSE]
              ELSE IF title = <<>> \/ content = <<>>
              THEN req @@ [pc |-> "done", overlap |-> FALSE,
                           reply |-> Reply(400, [error |-> "Title and content required"],
                                           "none")]
              ELSE req @@ [pc |-> "midway",
                           row |-> [title |-> title,
                                    slug |-> CollisionSlug(base, blog_posts, now),
                                    content |-> content, status |-> status,
                                    published_at |-> CreatePublishedAt(status, now)]]]
        /\ UNCHANGED <<ADMIN_PASSWORD, admin, now, store, last, served, slugVars,
                       collectorVars>>

\* create_blog_post from the INSERT to the return.  slug is UNIQUE: an INSERT of a
\* slug that another transaction inserted waits for it and raises when it commits.
CreateInsert(c) ==
    LET r == inflight[c]
        row == r.row @@ [id |-> next_post_id]
        taken == SlugTaken(blog_posts, r.row.slug)
    IN  /\ r.pc = "midway"
        /\ r.op = "create_blog_post"
        /\ blog_posts' = IF taken THEN blog_posts ELSE blog_posts \cup {row}
        /\ next_post_id' = next_post_id + 1
        /\ inflight' = [inflight EXCEPT ![c] =
              [op |-> r.op, title |-> r.title, row |-> r.row, pc |-> "done",
               overlap |-> OtherMidway(c),
               reply |-> IF taken THEN ServerError("UniqueViolation", "open")
                         ELSE Reply(200, [success |-> TRUE, id |-> row.id,
                                          slug |-> row.slug], "closed")]]
        /\ UNCHANGED <<ADMIN_PASSWORD, admin, now, commentVars, costVars, deletionVars,
                       ai_audit_log, last, served, slugVars, collectorVars>>

NextCreateRace ==
    \/ Tick /\ UNCHANGED served
    \/ \E c \in Clients, t \in RaceTitles, st \in Opt({"published"}) :
          CreateCheck(c, Dict({t}, {<<"x">>}, st))
    \/ \E c \in Clients : CreateInsert(c)

SpecCreateRace == InitBlog /\ [][NextCreateRace]_vars

\* ------------------------------------------------------------------ the whole application

\* a database in use: one published post, one cost row, two patients
\* and a pending deletion request of the first; nobody is logged in
Init ==
    /\ ADMIN_PASSWORD \in {"secret", "None"}
    /\ admin = FALSE
    /\ now = 1
    /\ blog_posts = {[id |-> 1, title |-> <<"A">>, slug |-> <<"a">>, content |-> <<"x">>,
                      status |-> "published", published_at |-> <<1>>]}
    /\ next_post_id = 2
    /\ blog_comments = {}
    /\ next_comment_id = 1
    /\ manual_costs = {[id |-> 1, cost_type |-> "hosting", amount |-> 5 * Dollar,
                        month |-> "current"]}
    /\ next_cost_id = 2
    /\ ai_audit_log = <<>>
    /\ deletion_requests = <<[patient_code |-> "c1", code_hash |-> "h1", status |-> "pending",
                              processed_at |-> NULL]>>
    /\ medications = {"h1"}
    /\ reminders = {"h1", "h2"}
    /\ patients = {"h1", "h2"}
    /\ last = Idle
    /\ served = 0
    /\ inflight = NoneInFlight
    /\ slug_in = <<>>
    /\ slug_out = <<>>
    /\ NoCollector

Readings == {PlainReading}

Request ==
    \/ \E password \in Passwords : Login(password)
    \/ Logout
    \/ Dashboard
    \/ /\ next_post_id <= MaxPostId
       /\ \E s \in {{}, {"published"}}, fail \in Failures :
             CreateBlogPost(Dict({<<"A">>}, {<<"x">>}, s), fail)
    \/ \E data \in {Dict({<<"A">>}, {}, {}), Dict({}, {}, {"draft"})}, fail \in Failures :
          UpdateBlogPost(1, data, fail)
    \/ \E title \in {<<>>, <<" ">>} : UpdateBlogPost(1, Dict({title}, {}, {}), "none")
    \/ \E fail \in Failures : DeleteBlogPost(1, fail)
    \/ \E fail \in Failures : GetBlogPosts(fail)
    \/ \E post_id \in 1..2, fail \in Failures : GetBlogPost(post_id, fail)
    \/ \E fail \in Failures : GetComments(1, fail)
    \/ /\ next_comment_id <= MaxComments
       /\ \E content \in {<<>>, <<"h", "i">>}, fail \in Failures :
             AddComment(1, <<"B", "o", "b">>, content, fail)
    \/ /\ next_cost_id <= MaxCosts + 1
       /\ \E cost_type \in {"marketing", "None"}, fail \in Failures :
             AddManualCost(cost_type, 89 * Cent, fail)
    \/ \E fail \in Failures : GetCostHistory(fail)
    \/ \E fail \in Failures : GetAiAudit(fail)
    \/ \E pick \in 0..1, fail \in Failures, at \in {0, 4} : ProcessDeletion("c1", pick, fail, at)
    \/ \E failing \in {{}, {"users"}, Collectors}, fail \in {"connect", "query"},
          ext \in Readings : GetAllMetrics(failing, fail, ext)

Next ==
    \/ Tick /\ UNCHANGED served
    \/ /\ served < MaxServed
       /\ served' = served + 1
       /\ Request

Spec == Init /\ [][Next]_vars

\* ------------------------------------------------------------------ properties

IsProcessDeletion(l) == l.op = "process_deletion"

NoPending(requests, patient_code) ==
    \A i \in 1..Len(requests) :
        ~(requests[i].patient_code = patient_code /\ requests[i].status = "pending")

\* every request of the patient code is completed and stamped, one of them stores
\* code_hash, and no table holds a row of code_hash
Erased(patient_code, code_hash) ==
    /\ code_hash \notin medications
    /\ code_hash \notin reminders
    /\ code_hash \notin patients
    /\ \E i \in 1..Len(deletion_requests) :
          /\ deletion_requests[i].patient_code = patient_code
          /\ deletion_requests[i].code_hash = code_hash
    /\ \A i \in 1..Len(deletion_requests) :
          deletion_requests[i].patient_code = patient_code =>
              /\ deletion_requests[i].status = "completed"
              /\ deletion_requests[i].processed_at # NULL

\* C1: a process_deletion that an authenticated caller ran to success for a patient
\* code, having read the hash H from the pending request it located, leaves no row
\* of H in medications, reminders and patients, and leaves that request (every
\* request of the patient code) completed with a non-null processed_at.
C1_ProcessedMeansErased ==
    (IsProcessDeletion(last) /\ last.status = 200) =>
        /\ last.auth
        /\ Erased(last.info.patient_code, last.info.code_hash)

\* C1 happens: a deletion succeeded for h1 while the rows of the other patient stay
C1_Witness ==
    /\ IsProcessDeletion(last)
    /\ last.status = 200
    /\ last.info.code_hash = "h1"
    /\ deletion_requests # <<>>
    /\ "h2" \in medications \cap reminders \cap patients

\* C2: process_deletion is all-or-nothing: a call that succeeds leaves all four
\* effects (the three deletes and the completed request), and a call that does not
\* succeed, whichever statement or the commit raised, leaves the four tables exactly
\* as they were.
C2_AllOrNothing ==
    [][IsProcessDeletion(last') =>
          \/ /\ last'.status = 200
             /\ Erased(last.info.patient_code, last.info.code_hash)'
          \/ /\ last'.status # 200
             /\ UNCHANGED deletionVars]_vars

\* C2 happens: the UPDATE, the fourth statement, raised after the three deletes ran,
\* and the rows of the hash are all still there with the request pending
C2_Witness ==
    /\ IsProcessDeletion(last)
    /\ last.status = 500
    /\ last.info.fail = "query"
    /\ last.info.at = 4
    /\ last.info.code_hash \in medications \cap reminders \cap patients
    /\ ~NoPending(deletion_requests, last.info.patient_code)

\* C3: an authenticated process_deletion that succeeds leaves no pending request of
\* its patient code, and an authenticated process_deletion for a patient code with
\* no pending request (so also the second of two calls in succession) answers 404
\* 'Request not found' and changes nothing in the store.
C3_NotFoundWithoutPending ==
    [][(IsProcessDeletion(last') /\ last'.auth) =>
          /\ last'.status = 200 => NoPending(deletion_requests', last'.info.patient_code)
          /\ (/\ NoPending(deletion_requests, last'.info.patient_code)
              /\ last'.info.fail = "none") =>
                 /\ last'.status = 404
                 /\ last'.body = [error |-> "Request not found"]
                 /\ UNCHANGED store]_vars

\* C3 happens: the code was processed before (its request is completed) and the
\* call just served for it was answered 404
C3_Witness ==
    /\ IsProcessDeletion(last)
    /\ last.auth
    /\ last.status = 404
    /\ \E i \in 1..Len(deletion_requests) :
          /\ deletion_requests[i].patient_code = last.info.patient_code
          /\ deletion_requests[i].status = "completed"

\* C4: /api/metrics without the session flag answers 401, its body is the
\* 'Unauthorized' error alone, and no collector was invoked.
C4_MetricsUnauthorized ==
    (last.op = "get_all_metrics" /\ ~last.auth) =>
        /\ last.status = 401
        /\ last.body = [error |-> "Unauthorized"]
        /\ last.info.collectors = {}

\* C4 happens: /api/metrics was asked without the session flag while there are
\* patients to count
C4_Witness ==
    /\ last.op = "get_all_metrics"
    /\ ~last.auth
    /\ patients # {}

ProtectedHandlers == {"create_blog_post", "update_blog_post", "delete_blog_post",
                      "add_manual_cost", "get_cost_history", "process_deletion",
                      "get_ai_audit", "get_all_metrics"}

\* C5 as stated: every mutating or metric endpoint, comment creation among them,
\* answers 401 and leaves the store unchanged without the session flag.
C5_AllMutatingEndpointsGated ==
    [][(served' # served /\ ~admin /\ last'.op \in ProtectedHandlers \cup {"add_comment"}) =>
          /\ last'.status = 401
          /\ UNCHANGED store]_vars

\* C5 amended: blog post create, update and delete, manual-cost add and history,
\* deletion processing, the AI audit trail and the aggregated metrics answer 401
\* and leave the store unchanged without the session flag (comment creation asks
\* for no session flag).
C5_ProtectedEndpointsGated ==
    [][(served' # served /\ ~admin /\ last'.op \in ProtectedHandlers) =>
          /\ last'.status = 401
          /\ last'.body = [error |-> "Unauthorized"]
          /\ UNCHANGED store]_vars

\* C5 happens: a deletion was asked for without the session flag, was refused, and
\* the pending request and the patient's rows are still there
C5_Witness ==
    /\ IsProcessDeletion(last)
    /\ ~last.auth
    /\ last.status = 401
    /\ ~NoPending(deletion_requests, "c1")
    /\ "h1" \in medications \cap reminders \cap patients
    /\ blog_posts # {}

\* C6: no request ends with a database connection still open.
C6_ConnectionReleased == last.conn # "open"

\* C7: no step changes a non-null published_at of a post, and an update_blog_post
\* that succeeds with status 'published' on a post whose published_at is null sets
\* it to a non-null value.
C7_PublishedAtSetOnce ==
    [][\A p \in blog_posts, q \in blog_posts' :
          p.id = q.id =>
             /\ p.published_at # NULL => q.published_at = p.published_at
             /\ (/\ last'.op = "update_blog_post"
                 /\ last'.status = 200
                 /\ last'.info.post_id = p.id
                 /\ "status" \in DOMAIN last'.info.data
                 /\ last'.info.data.status = "published"
                 /\ p.published_at = NULL) => q.published_at # NULL]_vars

\* C7 happens: a post published at an earlier second was just updated to
\* 'published' again and keeps its first publish date
C7_Witness ==
    /\ last.op = "update_blog_post"
    /\ last.status = 200
    /\ "status" \in DOMAIN last.info.data
    /\ last.info.data.status = "published"
    /\ last.info.at = now
    /\ \E p \in blog_posts :
          /\ p.id = last.info.post_id
          /\ p.published_at # NULL
          /\ p.published_at # <<now>>

\* C8: the row a successful create_blog_post stored has a non-null published_at,
\* the time of the creation, exactly when the requested status is 'published', and
\* has status 'draft' with a null published_at when no status was given.
C8_CreateStampsPublished ==
    (last.op = "create_blog_post" /\ last.status = 200) =>
        \E p \in blog_posts :
            /\ p.id = last.info.id
            /\ (p.published_at # NULL) <=> (last.info.requested = "published")
            /\ p.published_at \in {NULL, <<last.info.at>>}
            /\ last.info.requested = "None" => p.status = "draft"
            /\ last.info.requested # "None" => p.status = last.info.requested

\* C8 happens: a post was created as 'published' and carries the creation time
C8_Witness ==
    /\ last.op = "create_blog_post"
    /\ last.status = 200
    /\ last.info.requested = "published"
    /\ \E p \in blog_posts : p.id = last.info.id /\ p.published_at = <<last.info.at>>

RECURSIVE WordsOf(_)
WordsOf(s) ==
    IF s = <<>> THEN <<>>
    ELSE IF ~InClass(Head(s)) THEN WordsOf(Tail(s))
    ELSE LET n == CHOOSE k \in 1..Len(s) :
                     /\ \A i \in 1..k : InClass(s[i])
                     /\ k = Len(s) \/ ~InClass(s[k + 1])
         IN  <<SubSeq(s, 1, n)>> \o WordsOf(SubSeq(s, n + 1, Len(s)))

RECURSIVE JoinWords(_)
JoinWords(ws) ==
    IF ws = <<>> THEN <<>>
    ELSE IF Len(ws) = 1 THEN ws[1]
    ELSE ws[1] \o <<"-">> \o JoinWords(Tail(ws))

\* C10: generate_slug(title) is the lower-cased title with each maximal run of
\* characters outside [a-z0-9] replaced by one hyphen and the hyphens at both ends
\* removed: the runs of [a-z0-9] joined by single hyphens; it holds only [a-z0-9-],
\* no two adjacent hyphens, no hyphen at either end, and 'Hello, World! 2024'
\* gives 'hello-world-2024'.
C10_SlugNormalised ==
    slug_out # <<>> =>
        LET slug == slug_out[1]
        IN  /\ slug = JoinWords(WordsOf(lower(slug_in)))
            /\ \A i \in 1..Len(slug) : InClass(slug[i]) \/ slug[i] = "-"
            /\ \A i \in 1..Len(slug) - 1 : ~(slug[i] = "-" /\ slug[i + 1] = "-")
            /\ slug # <<>> => (slug[1] # "-" /\ slug[Len(slug)] # "-")
            /\ slug_in = HelloTitle => slug = HelloSlug

\* C10 happens: the slug of 'Hello, World! 2024' was computed
C10_Witness ==
    /\ slug_in = HelloTitle
    /\ slug_out = <<HelloSlug>>

\* C11: a get_blog_posts that no database failure cut short answers a caller without
\* the session flag with exactly the published posts, and that answer is the one
\* the published posts alone would give, whatever unpublished posts exist; it
\* answers a caller with the session flag with every post, drafts included.
C11_ListShowsPublishedOnly ==
    [][(served' # served /\ last'.op = "get_blog_posts" /\ last'.info.fail = "none") =>
          /\ last'.status = 200
          /\ ~admin =>
                /\ last'.body.posts =
                      {PublicColumns(p) : p \in {q \in blog_posts : q.status = "published"}}
                /\ \A p \in blog_posts :
                      p.status # "published" => \A r \in last'.body.posts : r.id # p.id
          /\ admin => last'.body.posts = {AdminColumns(p) : p \in blog_posts}]_vars

\* C11 happens: the list was just served without the session flag while the store
\* holds a published post and an unpublished one, and only the first is in it
C11_Witness ==
    /\ last.op = "get_blog_posts"
    /\ ~last.auth
    /\ last.status = 200
    /\ \E p, q \in blog_posts :
          /\ p.status = "published"
          /\ q.status # "published"
          /\ {r.id : r \in last.body.posts} = {p.id}

\* C12: a get_blog_post that no database failure cut short answers 404 when no post
\* has the id, with or without the session flag; 403 when the post exists, is not
\* published and the caller has no session flag; and the post itself otherwise.
C12_GetPostStatus ==
    [][(served' # served /\ last'.op = "get_blog_post" /\ last'.info.fail = "none") =>
          LET found == {p \in blog_posts : p.id = last'.info.post_id}
          IN  IF found = {} THEN last'.status = 404
              ELSE IF ~admin /\ \E p \in found : p.status # "published"
              THEN last'.status = 403 /\ last'.body = [error |-> "Unauthorized"]
              ELSE last'.status = 200 /\ last'.body.post \in found]_vars

\* C12 happens: an unpublished post was asked for without the session flag and the
\* answer was 403
C12_Witness ==
    /\ last.op = "get_blog_post"
    /\ ~last.auth
    /\ last.status = 403
    /\ \E p \in blog_posts : p.id = last.info.post_id /\ p.status # "published"

Sections == {"users", "costs", "financial", "details", "satisfaction", "dau", "errors",
             "health", "ai_compliance", "deletions"}

\* C13: whichever collectors fail, /api/metrics answers an authenticated caller 200
\* with a success document that has every one of the sections users, costs,
\* financial, details, satisfaction, dau, errors, health, ai_compliance, deletions.
C13_MetricsSurviveCollectors ==
    (last.op = "get_all_metrics" /\ last.auth) =>
        /\ last.status = 200
        /\ last.body.success
        /\ Sections \subseteq DOMAIN last.body

\* C13 happens: every collector failed on a database that has patients, and the
\* document was served with its users section reporting no user
C13_Witness ==
    /\ last.op = "get_all_metrics"
    /\ last.auth
    /\ last.info.failed = Collectors
    /\ last.status = 200
    /\ last.body.users.total_users = 0
    /\ patients # {}

\* what the document reports of collector c
ReportOf(body, c) ==
    CASE c = "gcp_billing" -> body.details.gcp
      [] c = "database" -> body.details.database
      [] c = "twilio" -> body.details.twilio
      [] c = "gemini" -> body.details.gemini
      [] c = "users" -> body.users
      [] c = "satisfaction" -> body.satisfaction
      [] c = "dau" -> body.dau
      [] c = "manual_costs" -> body.costs.manual
      [] c = "cloud_run_errors" -> body.errors
      [] c = "health" -> body.health
      [] c = "ai_compliance" -> body.ai_compliance
      [] c = "deletion_requests" -> body.deletions

C15_TotalIsAutomatedPlusManual ==
    (last.op = "get_all_metrics" /\ last.status = 200) =>
        LET costs == last.body.costs
            details == last.body.details
        IN  /\ costs.total = costs.automated.total + costs.manual.total
            /\ last.body.financial.total_costs = costs.total
            /\ costs.automated.total =
                  details.gcp.total + details.twilio.cost + details.gemini.cost
            /\ costs.total % Cent = 0

\* C15 happens: amounts that the collectors rounded and a sum that is not exact in
\* binary, with a manual cost on top of the three automated ones
C15_Witness ==
    /\ last.op = "get_all_metrics"
    /\ last.status = 200
    /\ last.info.total_costs % Cent # 0
    /\ last.body.costs.manual.total > 0
    /\ last.body.details.gcp.total > 0
    /\ last.body.details.twilio.cost > 0
    /\ last.body.details.gemini.cost > 0

Abs(x) == IF x >= 0 THEN x ELSE -x

\* C17: with 0 users, the user collector having failed or not, the document
\* reports per_user 0, monthly_revenue 0 and profit_loss = -total_costs and is
\* served with 200; with users, per_user is total_costs / total_users to the
\* nearest cent.
C17_PerUserCost ==
    (last.op = "get_all_metrics" /\ last.auth) =>
        /\ last.status = 200
        /\ LET users == last.body.financial.current_users
               costs == last.body.costs
               financial == last.body.financial
           IN  /\ users = last.body.users.total_users
               /\ users = 0 =>
                     /\ costs.per_user = 0
                     /\ financial.monthly_revenue = 0
                     /\ financial.profit_loss = -financial.total_costs
               /\ users > 0 =>
                     /\ 2 * Abs(users * costs.per_user - last.info.total_costs)
                           <= users * Cent
                     /\ costs.per_user % Cent = 0

\* C17 happens: the user collector failed on a database that has patients, and the
\* document reports no user, costs, and a loss of those costs
C17_Witness ==
    /\ last.op = "get_all_metrics"
    /\ last.status = 200
    /\ "users" \in last.info.failed
    /\ patients # {}
    /\ last.body.financial.current_users = 0
    /\ last.body.financial.total_costs > 0
    /\ last.body.financial.profit_loss < 0

C19_AcceptanceRate ==
    (collected # <<>> /\ "acceptance_rate" \in DOMAIN collected[1]) =>
        LET rated == {i \in 1..Len(ai_audit_log) :
                         ai_audit_log[i].recent /\ ai_audit_log[i].user_action # NoAction}
            accepted == {i \in rated : ai_audit_log[i].user_action = "accepted"}
            total_rated == Cardinality(rated)
            rate == collected[1].acceptance_rate
        IN  /\ total_rated = 0 => rate = 0
            /\ total_rated > 0 =>
                  2 * Abs(rate * total_rated - Cardinality(accepted) * 1000) <= total_rated
            /\ (Cardinality(accepted) = 7 /\ total_rated = 10) => rate = 700

\* C19 happens: 7 accepted, 2 rejected and 1 modified entries of the last 30 days,
\* next to an unrated one and an older accepted one, give 70.0
C19_Witness ==
    /\ collected # <<>>
    /\ "acceptance_rate" \in DOMAIN collected[1]
    /\ collected[1].acceptance_rate = 700
    /\ collected[1].accepted = 7
    /\ collected[1].rejected = 2
    /\ collected[1].modified = 1
    /\ Len(ai_audit_log) = 12

\* C20: every stored blog post has a title that is not empty and not whitespace only.
C20_TitlesNonEmpty ==
    \A p \in blog_posts : strip(p.title, Whitespace) # <<>>

\* C21: every stored post has the status 'draft' or 'published'.
C21_StatusDraftOrPublished ==
    \A p \in blog_posts : p.status \in {"draft", "published"}

\* C25: every deletion request that is completed has no row left in medications,
\* reminders and patients for the code_hash it stores.
C25_CompletedMeansErased ==
    \A i \in 1..Len(deletion_requests) :
        deletion_requests[i].status = "completed" =>
            deletion_requests[i].code_hash \notin medications \cup reminders \cup patients

\* C27: every post with status 'published' has a non-null published_at.
C27_PublishedHasDate ==
    \A p \in blog_posts : p.status = "published" => p.published_at # NULL

\* C27 happens: an update just published a post that had no publish date, and the
\* post carries the time of that update
C27_Witness ==
    /\ last.op = "update_blog_post"
    /\ last.status = 200
    /\ "status" \in DOMAIN last.info.data
    /\ last.info.data.status = "published"
    /\ \E p \in blog_posts :
          /\ p.id = last.info.post_id
          /\ p.status = "published"
          /\ p.published_at = <<last.info.at>>
          /\ last.info.at > 1

\* C28: an update_blog_post with a title that no database failure cut short sets
\* the slug of the post to generate_slug(title), without suffix; when another post
\* holds that slug the update of an existing post answers 500 and changes no post;
\* the slugs of the store stay pairwise distinct.
C28_UpdateSlugCollisionRejected ==
    [][(/\ last' # last
        /\ last'.op = "update_blog_post"
        /\ last'.auth
        /\ last'.info.fail = "none"
        /\ "title" \in DOMAIN last'.info.data) =>
          LET post_id == last'.info.post_id
              slug == generate_slug(last'.info.data.title)
              clash == /\ \E p \in blog_posts : p.id = post_id
                       /\ \E o \in blog_posts : o.id # post_id /\ o.slug = slug
          IN  /\ clash => (last'.status = 500 /\ blog_posts' = blog_posts)
              /\ last'.status = 200 =>
                    \A q \in blog_posts' : q.id = post_id => q.slug = slug
              /\ \A p, q \in blog_posts' : p.slug = q.slug => p.id = q.id]_vars

\* C28 happens: an update that sent a title and a status was refused for the slug
\* of another post, and the post keeps its own slug and its status
C28_Witness ==
    /\ last.op = "update_blog_post"
    /\ last.status = 500
    /\ last.body = [error |-> "UniqueViolation"]
    /\ DOMAIN last.info.data = {"title", "status"}
    /\ \E p, o \in blog_posts :
          /\ p.id = last.info.post_id
          /\ o.id # p.id
          /\ o.slug = generate_slug(last.info.data.title)
          /\ p.slug # o.slug
          /\ p.status # last.info.data.status

\* C30: every stored post has a non-empty slug.
C30_SlugsNonEmpty ==
    \A p \in blog_posts : p.slug # <<>>

\* C22: no step removes or changes a row of manual_costs; a successful
\* add_manual_cost adds exactly one row, a failed one adds none, and no other
\* endpoint changes the table.
C22_ManualCostsAppendOnly ==
    [][/\ manual_costs \subseteq manual_costs'
       /\ manual_costs' # manual_costs => last'.op = "add_manual_cost"
       /\ (served' # served /\ last'.op = "add_manual_cost") =>
             IF last'.status = 200
             THEN /\ Cardinality(manual_costs') = Cardinality(manual_costs) + 1
                  /\ \E r \in manual_costs' \ manual_costs : r.id = last'.body.id
             ELSE manual_costs' = manual_costs]_vars

\* C22 happens: a cost was added to a table that held a row already, and both rows
\* are there
C22_Witness ==
    /\ last.op = "add_manual_cost"
    /\ last.status = 200
    /\ \E old, new \in manual_costs :
          /\ old.id < new.id
          /\ new.id = last.body.id
          /\ old.cost_type = "hosting"

\* C23: the session flag becomes set only in a login whose password equals
\* ADMIN_PASSWORD; a login with another password leaves the flag as it was and
\* answers 401; logout clears the flag; without the flag every protected endpoint
\* answers 401 and the dashboard redirects to /login.
C23_SessionFlagGates ==
    [][/\ (admin' /\ ~admin) =>
             /\ last'.op = "login"
             /\ last'.info.password = ADMIN_PASSWORD
             /\ last'.status = 200
       /\ (served' # served /\ last'.op = "login"
              /\ last'.info.password # ADMIN_PASSWORD) =>
             /\ admin' = admin
             /\ last'.status = 401
       /\ (served' # served /\ last'.op = "logout") => ~admin'
       /\ (~admin' /\ admin) => last'.op = "logout"
       /\ (served' # served /\ ~admin /\ last'.op \in ProtectedHandlers) =>
             last'.status = 401
       /\ (served' # served /\ ~admin /\ last'.op = "dashboard") =>
             /\ last'.status = 302
             /\ last'.body = [location |-> "/login"]]_vars

\* C23 happens: the flag, set by a login with the configured password, was
\* cleared by a logout
C23_Witness ==
    /\ last.op = "logout"
    /\ last.auth
    /\ ~admin
    /\ ADMIN_PASSWORD = "secret"

\* C24: a login whose body has no 'password' field is answered 401 and does not
\* set the session flag, whether or not ADMIN_PASSWORD is configured.
C24_NoPasswordNoSession ==
    [][(served' # served /\ last'.op = "login" /\ last'.info.password = "None") =>
          /\ last'.status = 401
          /\ admin' = admin]_vars

\* C26: of two process_deletion requests for the same patient code of which one
\* ran its SELECT before the other committed, at most one answers success and the
\* other answers 404 'Request not found'.
C26_OneDeletionSucceeds ==
    \A v, w \in Clients :
        (/\ v # w
         /\ inflight[v].pc = "done" /\ inflight[w].pc = "done"
         /\ inflight[v].op = "process_deletion" /\ inflight[w].op = "process_deletion"
         /\ inflight[v].patient_code = inflight[w].patient_code
         /\ inflight[v].overlap
         /\ inflight[v].reply.status = 200) =>
            /\ inflight[w].reply.status = 404
            /\ inflight[w].reply.body = [error |-> "Request not found"]

\* C29: two create_blog_post requests with the same title that both ran the slug
\* check before either inserted both answer 200, and their posts are stored with
\* distinct slugs.
C29_BothCreatesSucceed ==
    \A v, w \in Clients :
        (/\ v # w
         /\ inflight[v].pc = "done" /\ inflight[w].pc = "done"
         /\ inflight[v].op = "create_blog_post" /\ inflight[w].op = "create_blog_post"
         /\ inflight[v].title = inflight[w].title
         /\ inflight[v].overlap) =>
            /\ inflight[v].reply.status = 200
            /\ inflight[w].reply.status = 200
            /\ inflight[v].reply.body.slug # inflight[w].reply.body.slug
            /\ \E p, q \in blog_posts :
                  /\ p.id = inflight[v].reply.body.id
                  /\ q.id = inflight[w].reply.body.id
                  /\ p.slug # q.slug

====
